---- MODULE Spec2Model ----
(***************************************************************************)
(* Model of the rocket stabilization sketch (src/main.cpp): the angle      *)
(* normaliser, the float packer, the orientation estimator, the canard     *)
(* sweep, the telemetry/actuation dispatch and the setup()/loop() driver.  *)
(*                                                                         *)
(* Angles are fixed-point: one unit is a thousandth of a degree, so PI is  *)
(* 180000 units and a sweep of 24 deg/s moves exactly 24 units per ms.     *)
(* Times are in milliseconds; deltaTime holds seconds * 1000.              *)
(* Values handed to "%f" are fixed-point with six decimals (micro-units).  *)
(***************************************************************************)
EXTENDS Integers, Sequences, FiniteSets, TLC

(***************************************************************************)
(* Bounds of the model                                                     *)
(***************************************************************************)
\* width of the millis() counter (32 on the target)
ClockBits == 14
\* number of ticks on which the environment may choose the inputs freely
Budget == 2
\* the same, in the specification with fairness
LiveBudget == 1
\* largest |x| handed to the normaliser, in whole half-turns
MaxHalfTurns == 5
\* PackFloatsInStr harness: longest float list, widest slot, largest buffer
MaxFloats == 3
MaxWidth == 9
MaxSize == 27

(***************************************************************************)
(* Constants of the program                                                *)
(***************************************************************************)
PI == 180000
DEG2RAD == PI \div 180
PI2 == 2 * PI
SweepRate == 24
FLOAT_CHARS == 8
FLOAT_ARR_ELEMS == 7
SizeBits == 16
SizeMod == 2 ^ SizeBits
ClockMod == 2 ^ ClockBits
NUL == "NUL"

(***************************************************************************)
(* <math.h> on the fixed-point grid                                        *)
(***************************************************************************)
fabsf(x) == IF x < 0 THEN 0 - x ELSE x

\* C fmod: the result has the sign of the dividend
fmodf(x, y) == IF x < 0 THEN 0 - ((0 - x) % y) ELSE x % y

Min(a, b) == IF a < b THEN a ELSE b

\* F applied to the value of v, with v evaluated once, as a C local is
Bind(v, F(_)) == CHOOSE r \in {F(x) : x \in {v}} : TRUE

(***************************************************************************)
(* fixRadian                                                               *)
(***************************************************************************)
\* faulty variant: the final reduction modulo a full turn is missing
fixRadian_NoMod(radians) ==
    fabsf(IF radians < 0 THEN radians + PI ELSE radians)

\* faulty variant: a full turn is added to a negative angle
fixRadian_FullTurn(radians) ==
    fmodf(fabsf(IF radians < 0 THEN radians + PI2 ELSE radians), PI2)

fixRadian(radians) ==
    LET shifted == IF radians < 0 THEN radians + PI ELSE radians
        absval == fabsf(shifted)
    IN  fmodf(absval, PI2)

(***************************************************************************)
(* "%f": sign, integer digits, '.', six fraction digits                    *)
(***************************************************************************)
DigitChars == <<"0", "1", "2", "3", "4", "5", "6", "7", "8", "9">>

Digit(d) == DigitChars[d + 1]

RECURSIVE IntDigits(_)
IntDigits(n) ==
    IF n < 10 THEN <<Digit(n)>>
    ELSE IntDigits(n \div 10) \o <<Digit(n % 10)>>

FracDigits(f) == [k \in 1..6 |-> Digit((f \div (10 ^ (6 - k))) % 10)]

FormatF(micro) ==
    LET a == fabsf(micro)
    IN  (IF micro < 0 THEN <<"-">> ELSE <<>>)
        \o IntDigits(a \div 1000000) \o <<".">> \o FracDigits(a % 1000000)

\* the radian value of a grid angle, in micro-radians (pi ~ 355/113)
RadToMicro(v) == ((((v * 355) \div 113) * 1000) \div 180)

(***************************************************************************)
(* snprintf(str + off, n, "%f", v): at most n - 1 characters of the text,  *)
(* then the terminator; nothing at all when n = 0.                         *)
(***************************************************************************)
SnprintfOffsets(off, n, text) ==
    IF n = 0 THEN {} ELSE off .. (off + Min(Len(text), n - 1))

SnprintfCell(off, n, text, o) ==
    IF o = off + Min(Len(text), n - 1) THEN NUL ELSE text[o - off + 1]

\* memory after the snprintf calls of 'calls' were made in order on 'str':
\* every byte holds what the last call that reached it wrote there
Snprintf(str, calls) ==
    [o \in 1..Len(str) |->
        LET hits == {k \in 1..Len(calls) :
                        (o - 1) \in SnprintfOffsets(calls[k].off, calls[k].n,
                                                    calls[k].text)}
        IN  IF hits = {} THEN str[o]
            ELSE LET k == CHOOSE h \in hits : \A g \in hits : g <= h
                 IN  SnprintfCell(calls[k].off, calls[k].n, calls[k].text, o - 1)]

(***************************************************************************)
(* PackFloatsInStr                                                         *)
(***************************************************************************)
\* faulty variant: the loop only stops when the floats run out
PackGuard_NoSizeCheck(i, float_c, str_size, float_chars) == i < float_c

PackGuard(i, float_c, str_size, float_chars) ==
    i < float_c /\ str_size >= float_chars

\* st = [i, off, str_size, calls, writes, underflow]: the loop's variables, the
\* snprintf calls made so far, every offset they wrote and whether str_size
\* wrapped around
PackBody(st, floats, float_chars) ==
    LET text == FormatF(floats[st.i + 1])
    IN  [i         |-> st.i + 1,
         off       |-> st.off + float_chars,
         str_size  |-> (st.str_size - float_chars) % SizeMod,
         calls     |-> Append(st.calls,
                              [off |-> st.off, n |-> st.str_size, text |-> text]),
         writes    |-> st.writes \cup SnprintfOffsets(st.off, st.str_size, text),
         underflow |-> st.underflow \/ st.str_size < float_chars]

RECURSIVE PackLoop(_, _, _, _)
PackLoop(entry, floats, float_c, float_chars) ==
    Bind(entry, LAMBDA st :
        IF PackGuard(st.i, float_c, st.str_size, float_chars)
        THEN PackLoop(PackBody(st, floats, float_chars),
                      floats, float_c, float_chars)
        ELSE st)

PackFloatsInStr(str, str_size, floats, float_c, float_chars) ==
    Bind(PackLoop([i |-> 0, off |-> 0, str_size |-> str_size,
                   calls |-> <<>>, writes |-> {}, underflow |-> FALSE],
                  floats, float_c, float_chars),
         LAMBDA done :
            [i |-> done.i, off |-> done.off, str_size |-> done.str_size,
             buf |-> Bind(str, LAMBDA mem : Snprintf(mem, done.calls)),
             writes |-> done.writes, underflow |-> done.underflow])

(***************************************************************************)
(* Rocket state, the estimator, the sweep and the dispatcher               *)
(***************************************************************************)
\* o = [pitch, roll, yaw]; roll_a, pitch_a, yaw_m are the three atan2f results
SetOrientationFromSensors(o, ready, roll_a, pitch_a, yaw_m) ==
    IF ready
    THEN LET pitch_l == roll_a
             roll_l == roll_a
             yaw_l == yaw_m
         IN  [pitch |-> fixRadian(pitch_l), roll |-> fixRadian(roll_l),
              yaw |-> fixRadian(yaw_l)]
    ELSE o

\* faulty variant: the degree-to-radian factor is forgotten
StabilizationSystem_NoDeg2Rad(rotations, dt) ==
    [i \in 1..4 |-> fixRadian(rotations[i] + ((SweepRate * dt) \div 1000))]

StabilizationSystem(rotations, dt) ==
    [i \in 1..4 |->
        fixRadian(rotations[i] + ((SweepRate * DEG2RAD * dt) \div 1000))]

\* faulty variant: no room for the terminator
DATA_STR_SIZE_NoNul == FLOAT_CHARS * FLOAT_ARR_ELEMS

DATA_STR_SIZE == FLOAT_CHARS * FLOAT_ARR_ELEMS + 1

\* the buffer rocketDataStr after PackFloatsInStr has filled it
SendDataToSerial(p, r, y, rotations) ==
    Bind(<<RadToMicro(p), RadToMicro(r), RadToMicro(y),
           RadToMicro(rotations[1]), RadToMicro(rotations[2]),
           RadToMicro(rotations[3]), RadToMicro(rotations[4])>>,
         LAMBDA float_data_arr :
            PackFloatsInStr([o \in 1..DATA_STR_SIZE |-> NUL], DATA_STR_SIZE,
                            float_data_arr, FLOAT_ARR_ELEMS, FLOAT_CHARS).buf)

\* Serial.println(char*): the characters before the first terminator; with no
\* terminator in the buffer the read runs on into whatever follows it
Println(str) ==
    Bind(str, LAMBDA buf :
        IF \E o \in 1..Len(buf) : buf[o] = NUL
        THEN LET first == CHOOSE o \in 1..Len(buf) :
                              buf[o] = NUL /\ \A q \in 1..(o - 1) : buf[q] # NUL
             IN  {SubSeq(buf, 1, first - 1)}
        ELSE {buf \o tail : tail \in {<<>>, <<"?">>, <<"?", "?">>}})

\* the local 'degrees' of ActuateCanard, in whole degrees
ActuateCanard(radians) == (radians * 180) \div PI

(***************************************************************************)
(* State                                                                   *)
(***************************************************************************)
VARIABLES
    pc,               \* position in setup() / loop()
    simMode,          \* SIM_MODE_ON is defined in this build
    status,           \* ICM_Obj.status after the last begin()
    init,             \* setup()'s local 'init'
    last_tick,
    current_tick,     \* loop()'s local
    deltaTime,        \* loop()'s local, seconds * 1000
    pitch, roll, yaw,
    canard_rotations,
    dataReady,        \* what ICM_Obj.dataReady() returned on this tick
    sample,           \* the atan2f results of the last sample read
    serialLine,       \* the last line written to Serial
    txCount,          \* lines written to Serial since the tick began
    actuated,         \* degrees handed to the four ActuateCanard calls
    elapsed,          \* time that really passed between the last two millis()
    sinceSetup,       \* time that really passed since setup() read millis()
    dtSum,            \* sum of the deltaTimes so far
    budget,           \* ticks left on which the inputs are free
    arg, res, called  \* harness for the pure functions

vars == <<pc, simMode, status, init, last_tick, current_tick, deltaTime,
          pitch, roll, yaw, canard_rotations, dataReady, sample, serialLine,
          txCount, actuated, elapsed, sinceSetup, dtSum, budget,
          arg, res, called>>

driverVars == <<pc, simMode, status, init, last_tick, current_tick, deltaTime,
                pitch, roll, yaw, canard_rotations, dataReady, sample,
                serialLine, txCount, actuated, elapsed, sinceSetup, dtSum,
                budget>>

harnessVars == <<arg, res, called>>

RunningPcs == {"delta", "estimate", "stabilize", "dispatch", "sleep"}

\* inputs of the environment
StatusValues == {"Ok", "Err"}
StartTicks == {0, 100, ClockMod - 1}
Elapsed == {0, 1000, 14000, ClockMod - 1}
AtanValues == {0 - (PI \div 2), 0, PI \div 4}
PitchValues == {0 - (PI \div 4), 0}
FailMsg == <<"Failed to init ICM, trying again...">>

\* the globals as the C++ runtime initialises them
Globals ==
    /\ pc = "begin"
    /\ simMode \in BOOLEAN
    /\ status = "Unknown"
    /\ init = FALSE
    /\ last_tick = 0
    /\ current_tick = 0
    /\ deltaTime = 0
    /\ pitch = 0 /\ roll = 0 /\ yaw = 0
    /\ canard_rotations = <<0, 0, 0, 0>>
    /\ dataReady = FALSE
    /\ sample = [roll_a |-> 0, pitch_a |-> 0, yaw_m |-> 0]
    /\ serialLine = <<>>
    /\ txCount = 0
    /\ actuated = <<>>
    /\ elapsed = 0 /\ sinceSetup = 0 /\ dtSum = 0

Init ==
    /\ Globals
    /\ budget = Budget
    /\ arg = <<>> /\ res = <<>> /\ called = FALSE

(***************************************************************************)
(* setup()                                                                 *)
(***************************************************************************)
SetupBegin ==
    /\ pc = "begin"
    /\ \E s \in StatusValues : status' = s
    /\ pc' = "check"
    /\ UNCHANGED <<simMode, init, last_tick, current_tick, deltaTime, pitch,
                   roll, yaw, canard_rotations, dataReady, sample, serialLine,
                   txCount, actuated, elapsed, sinceSetup, dtSum, budget>>

\* faulty variant: the status of begin() is ignored
SetupCheck_IgnoreStatus ==
    /\ pc = "check"
    /\ init' = TRUE
    /\ pc' = "mark"
    /\ UNCHANGED <<simMode, status, last_tick, current_tick, deltaTime, pitch,
                   roll, yaw, canard_rotations, dataReady, sample, serialLine,
                   txCount, actuated, elapsed, sinceSetup, dtSum, budget>>

SetupCheck ==
    /\ pc = "check"
    /\ IF status # "Ok"
       THEN /\ serialLine' = FailMsg
            /\ pc' = "delay"
            /\ UNCHANGED init
       ELSE /\ init' = TRUE
            /\ pc' = "mark"
            /\ UNCHANGED serialLine
    /\ UNCHANGED <<simMode, status, last_tick, current_tick, deltaTime, pitch,
                   roll, yaw, canard_rotations, dataReady, sample,
                   txCount, actuated, elapsed, sinceSetup, dtSum, budget>>

\* delay(100), then the while (!init) test sends the loop round again
SetupDelay ==
    /\ pc = "delay"
    /\ pc' = "begin"
    /\ UNCHANGED <<simMode, status, init, last_tick, current_tick, deltaTime,
                   pitch, roll, yaw, canard_rotations, dataReady, sample,
                   serialLine, txCount, actuated, elapsed, sinceSetup, dtSum,
                   budget>>

\* last_tick = millis()
SetupMark ==
    /\ pc = "mark"
    /\ \E t \in StartTicks : last_tick' = t
    /\ pc' = "delta"
    /\ UNCHANGED <<simMode, status, init, current_tick, deltaTime, pitch,
                   roll, yaw, canard_rotations, dataReady, sample, serialLine,
                   txCount, actuated, elapsed, sinceSetup, dtSum, budget>>

(***************************************************************************)
(* loop()                                                                  *)
(***************************************************************************)
\* faulty variant: the dispatcher runs before the sweep
LoopOrder_DispatchEarly ==
    <<"delta", "estimate", "dispatch", "stabilize", "sleep">>

\* the statements of loop(), in program order
LoopOrder == <<"delta", "estimate", "stabilize", "dispatch", "sleep">>

After(p) ==
    LET k == CHOOSE j \in 1..Len(LoopOrder) : LoopOrder[j] = p
    IN  LoopOrder[(k % Len(LoopOrder)) + 1]

\* millis() when e ms have passed since it last returned prev
Millis(prev, e) == (prev + e) % ClockMod

\* faulty variant: the subtraction is done in signed arithmetic
TickDiff_Signed(cur, last) == cur - last

\* current_tick - last_tick in unsigned long
TickDiff(cur, last) == (cur - last) % ClockMod

LoopDelta ==
    /\ pc = "delta"
    /\ \E e \in (IF budget > 0 THEN Elapsed ELSE {0}) :
          /\ current_tick' = Millis(last_tick, e)
          /\ elapsed' = e
          /\ sinceSetup' = sinceSetup + e
    /\ deltaTime' = TickDiff(current_tick', last_tick)
    /\ last_tick' = current_tick'
    /\ dtSum' = dtSum + deltaTime'
    /\ txCount' = 0
    /\ pc' = After("delta")
    /\ UNCHANGED <<simMode, status, init, pitch, roll, yaw, canard_rotations,
                   dataReady, sample, serialLine, actuated, budget>>

LoopEstimate ==
    /\ pc = "estimate"
    /\ \E ready \in (IF budget > 0 THEN BOOLEAN ELSE {FALSE}),
          roll_a \in AtanValues, pitch_a \in PitchValues, yaw_m \in AtanValues :
          LET o == SetOrientationFromSensors(
                       [pitch |-> pitch, roll |-> roll, yaw |-> yaw],
                       ready, roll_a, pitch_a, yaw_m)
          IN  /\ dataReady' = ready
              /\ sample' = IF ready
                           THEN [roll_a |-> roll_a, pitch_a |-> pitch_a,
                                 yaw_m |-> yaw_m]
                           ELSE sample
              /\ pitch' = o.pitch
              /\ roll' = o.roll
              /\ yaw' = o.yaw
    /\ pc' = After("estimate")
    /\ UNCHANGED <<simMode, status, init, last_tick, current_tick, deltaTime,
                   canard_rotations, serialLine, txCount, actuated, elapsed,
                   sinceSetup, dtSum, budget>>

LoopStabilize ==
    /\ pc = "stabilize"
    /\ canard_rotations' = StabilizationSystem(canard_rotations, deltaTime)
    /\ pc' = After("stabilize")
    /\ UNCHANGED <<simMode, status, init, last_tick, current_tick, deltaTime,
                   pitch, roll, yaw, dataReady, sample, serialLine, txCount,
                   actuated, elapsed, sinceSetup, dtSum, budget>>

LoopDispatch ==
    /\ pc = "dispatch"
    /\ IF simMode
       THEN /\ \E line \in Println(SendDataToSerial(pitch, roll, yaw,
                                                    canard_rotations)) :
                  serialLine' = line
            /\ txCount' = txCount + 1
            /\ UNCHANGED actuated
       ELSE /\ actuated' = [i \in 1..4 |-> ActuateCanard(canard_rotations[i])]
            /\ UNCHANGED <<serialLine, txCount>>
    /\ pc' = After("dispatch")
    /\ UNCHANGED <<simMode, status, init, last_tick, current_tick, deltaTime,
                   pitch, roll, yaw, canard_rotations, dataReady, sample,
                   elapsed, sinceSetup, dtSum, budget>>

\* delay(1), then loop() is entered again
LoopSleep ==
    /\ pc = "sleep"
    /\ budget' = IF budget > 0 THEN budget - 1 ELSE 0
    /\ pc' = After("sleep")
    /\ UNCHANGED <<simMode, status, init, last_tick, current_tick, deltaTime,
                   pitch, roll, yaw, canard_rotations, dataReady, sample,
                   serialLine, txCount, actuated, elapsed, sinceSetup, dtSum>>

Next ==
    \/ (SetupBegin /\ UNCHANGED harnessVars)
    \/ (SetupCheck /\ UNCHANGED harnessVars)
    \/ (SetupDelay /\ UNCHANGED harnessVars)
    \/ (SetupMark /\ UNCHANGED harnessVars)
    \/ (LoopDelta /\ UNCHANGED harnessVars)
    \/ (LoopEstimate /\ UNCHANGED harnessVars)
    \/ (LoopStabilize /\ UNCHANGED harnessVars)
    \/ (LoopDispatch /\ UNCHANGED harnessVars)
    \/ (LoopSleep /\ UNCHANGED harnessVars)

Spec == Init /\ [][Next]_vars

FairInit ==
    /\ Globals
    /\ budget = LiveBudget
    /\ arg = <<>> /\ res = <<>> /\ called = FALSE

\* the processor never stops executing the sketch
FairSpec == FairInit /\ [][Next]_vars /\ WF_vars(Next)

(***************************************************************************)
(* fixRadian on its own                                                    *)
(***************************************************************************)
NormInputs ==
    {k * (PI \div 12) + d : k \in (0 - 12 * MaxHalfTurns)..(12 * MaxHalfTurns),
                             d \in {0 - 1, 0, 1}}

NormInit ==
    /\ Globals
    /\ budget = 0
    /\ arg \in NormInputs
    /\ res = 0
    /\ called = FALSE

NormCall ==
    /\ ~called
    /\ res' = fixRadian(arg)
    /\ called' = TRUE
    /\ UNCHANGED arg
    /\ UNCHANGED driverVars

NormNext == NormCall

NormSpec == NormInit /\ [][NormNext]_vars

(***************************************************************************)
(* PackFloatsInStr on its own                                              *)
(***************************************************************************)
PackValues == {1000000, 2000000, 3000000, 0 - 12500000}

FloatLists == UNION {[1..n -> PackValues] : n \in 0..MaxFloats}

\* a destination buffer of S bytes nobody has written yet
Unwritten(S) == [o \in 1..S |-> "U"]

PackInit ==
    /\ Globals
    /\ budget = 0
    /\ arg \in [floats : FloatLists, W : 1..MaxWidth, S : 0..MaxSize]
    /\ res = <<>>
    /\ called = FALSE

PackCall ==
    /\ ~called
    /\ res' = PackFloatsInStr(Unwritten(arg.S), arg.S, arg.floats,
                              Len(arg.floats), arg.W)
    /\ called' = TRUE
    /\ UNCHANGED arg
    /\ UNCHANGED driverVars

PackNext == PackCall

PackSpec == PackInit /\ [][PackNext]_vars

(***************************************************************************)
(* Properties                                                              *)
(***************************************************************************)
Fields == <<pitch, roll, yaw, canard_rotations[1], canard_rotations[2],
            canard_rotations[3], canard_rotations[4]>>

Congruent(a, b) == (a - b) % PI2 = 0

\* C1: pitch, roll, yaw and the four canard rotations always lie in
\* [0, 2*pi): never negative, never a full turn or more.
AnglesInRange ==
    \A k \in 1..7 : 0 <= Fields[k] /\ Fields[k] < PI2

\* a tick in which the sweep carried the canards past a full turn and the
\* estimator normalised a negative roll
AnglesInRangeWitness ==
    /\ pc = "dispatch"
    /\ dtSum * SweepRate >= PI2
    /\ dataReady
    /\ sample.roll_a < 0

\* C2: on a tick with data ready the estimator writes into each of roll,
\* pitch and yaw the normalised result of that field's own atan2 formula.
EstimatorOwnFormulas ==
    (pc = "stabilize" /\ dataReady) =>
        /\ roll = fixRadian(sample.roll_a)
        /\ pitch = fixRadian(sample.pitch_a)
        /\ yaw = fixRadian(sample.yaw_m)

\* C3: on ticks without data pitch, roll and yaw keep their values, and each
\* canard becomes normalize(previous + 24 * pi/180 * deltaTime); from
\* [0,0,0,0] a tick of one second gives 24 degrees for each.
HoldWithoutData ==
    [][ /\ (pc \in RunningPcs /\ ~(pc = "estimate" /\ dataReady'))
              => UNCHANGED <<pitch, roll, yaw>>
        /\ (pc = "stabilize" /\ ~dataReady)
              => canard_rotations' =
                    [i \in 1..4 |->
                        fixRadian(canard_rotations[i]
                                  + ((24 * (PI \div 180) * deltaTime) \div 1000))]
        /\ (pc = "stabilize" /\ ~dataReady /\ deltaTime = 1000
                /\ canard_rotations = <<0, 0, 0, 0>>)
              => canard_rotations' = [i \in 1..4 |-> 24 * (PI \div 180)]
      ]_vars

\* a one-second tick without data, after an earlier tick set the orientation
HoldWithoutDataWitness ==
    /\ pc = "dispatch"
    /\ ~dataReady
    /\ deltaTime = 1000
    /\ pitch # 0
    /\ canard_rotations = [i \in 1..4 |-> 24 * (PI \div 180)]

\* C4: no tick runs and last_tick is not recorded before a begin() returned
\* Ok; a failed attempt is followed by the delay and another attempt, with no
\* exit; a successful attempt leads to Running; once Running the driver keeps
\* ticking and never goes back to initialising.
InitThenRunForever ==
    /\ [](/\ pc \in (RunningPcs \cup {"begin", "check", "delay", "mark"})
          /\ (pc \in (RunningPcs \cup {"mark"})) => init
          /\ (pc = "delay") => <>(pc = "check")
          /\ (pc = "check" /\ status = "Ok") => <>(pc = "delta")
          /\ (pc \in RunningPcs) => <>(pc = "sleep")
          /\ (pc = "sleep") => <>(pc = "delta"))
    /\ [][ /\ (~init /\ init') => status = "Ok"
           /\ (last_tick' # last_tick) => init
           /\ (pc = "check" /\ status # "Ok") => (pc' = "delay")
           /\ (pc = "delay") => (pc' = "begin")
           /\ (pc \in RunningPcs) => (pc' \in RunningPcs) ]_vars

\* the driver is ticking after an attempt that failed
InitThenRunForeverWitness ==
    /\ pc = "sleep"
    /\ init
    /\ ~simMode
    /\ serialLine = FailMsg

\* C5 as stated: the result is in [0, 2*pi), congruent to x for x >= 0 and
\* congruent to x + pi for every x < 0.
NormalizeHalfTurnShift ==
    called =>
        /\ 0 <= res /\ res < PI2
        /\ (arg >= 0 => Congruent(res, arg))
        /\ (arg < 0 => Congruent(res, arg + PI))

\* C5 as amended: the result is in [0, 2*pi), congruent to x for x >= 0,
\* equal to x + pi for -pi <= x < 0, and congruent to -(x + pi) for x < -pi.
NormalizeReflects ==
    called =>
        /\ 0 <= res /\ res < PI2
        /\ (arg >= 0 => Congruent(res, arg))
        /\ ((0 - PI <= arg /\ arg < 0) => res = arg + PI)
        /\ (arg < 0 - PI => Congruent(res, 0 - (arg + PI)))

\* an input below -pi whose result is not congruent to the shifted input
NormalizeReflectsWitness ==
    /\ called
    /\ arg < 0 - PI
    /\ ~Congruent(res, arg + PI)
    /\ res = fabsf(arg + PI) % PI2

\* C6: PackFloatsInStr writes text and terminator only at offsets in [0, S)
\* and its remaining-size counter never underflows.
PackStaysInBuffer ==
    called =>
        /\ res.writes \subseteq 0..(arg.S - 1)
        /\ ~res.underflow
        /\ res.str_size <= arg.S

\* a list cut short by the buffer whose texts are longer than the slot
PackStaysInBufferWitness ==
    /\ called
    /\ 0 < res.i /\ res.i < Len(arg.floats)
    /\ \A k \in 1..Len(arg.floats) : Len(FormatF(arg.floats[k])) > arg.W
    /\ arg.S % arg.W # 0

\* C7: exactly min(N, floor(S / W)) floats are packed, and every packed float
\* whose text has at most W characters has all of them written at offset i*W.
PackWholeFloats ==
    called =>
        /\ res.i = Min(Len(arg.floats), arg.S \div arg.W)
        /\ \A k \in 0..(res.i - 1) :
              LET text == FormatF(arg.floats[k + 1])
              IN  Len(text) <= arg.W =>
                      \A j \in 1..Len(text) :
                          /\ k * arg.W + j <= arg.S
                          /\ res.buf[k * arg.W + j] = text[j]

\* C8: in telemetry mode a tick emits exactly one line, and the line is the
\* seven 8-character "%f" texts of pitch, roll, yaw and canard 0..3, in that
\* order, with nothing between them.
TelemetryLine ==
    (simMode /\ pc \in RunningPcs) =>
        /\ (pc \in {"estimate", "stabilize", "dispatch"} => txCount = 0)
        /\ (pc = "sleep" =>
              /\ txCount = 1
              /\ Len(serialLine) = 7 * 8
              /\ \A k \in 1..7 :
                    /\ Len(FormatF(RadToMicro(Fields[k]))) = 8
                    /\ SubSeq(serialLine, 8 * (k - 1) + 1, 8 * k)
                          = FormatF(RadToMicro(Fields[k])))

\* a line with canards past five radians and a non-zero orientation
TelemetryLineWitness ==
    /\ simMode
    /\ pc = "sleep"
    /\ RadToMicro(canard_rotations[1]) > 5000000
    /\ pitch # 0
    /\ yaw # pitch

\* C9: a tick runs delta time, estimator, sweep, dispatcher, sleep in that
\* order, each once, and the dispatcher emits the state as the estimator and
\* the sweep of the same tick left it.
TickOrder ==
    [][ /\ pc = "mark" => pc' = "delta"
        /\ pc = "delta" => pc' = "estimate"
        /\ pc = "estimate" => pc' = "stabilize"
        /\ pc = "stabilize" => pc' = "dispatch"
        /\ pc = "dispatch" =>
              /\ pc' = "sleep"
              /\ UNCHANGED <<pitch, roll, yaw, canard_rotations>>
              /\ simMode =>
                    serialLine' =
                        FormatF(RadToMicro(pitch')) \o FormatF(RadToMicro(roll'))
                        \o FormatF(RadToMicro(yaw'))
                        \o FormatF(RadToMicro(canard_rotations'[1]))
                        \o FormatF(RadToMicro(canard_rotations'[2]))
                        \o FormatF(RadToMicro(canard_rotations'[3]))
                        \o FormatF(RadToMicro(canard_rotations'[4]))
              /\ ~simMode =>
                    actuated' = [i \in 1..4 |->
                                    (canard_rotations'[i] * 180) \div PI]
        /\ pc = "sleep" => pc' = "delta"
      ]_vars

\* the first tick, one second long with data ready: what was emitted is the
\* state this tick produced, not the zeros it started from
TickOrderWitness ==
    /\ pc = "sleep"
    /\ simMode
    /\ budget = Budget
    /\ deltaTime = 1000
    /\ dataReady
    /\ pitch # 0
    /\ SubSeq(serialLine, 1, 8) = FormatF(RadToMicro(pitch))
    /\ SubSeq(serialLine, 1, 8) # FormatF(0)
    /\ SubSeq(serialLine, 25, 32) = FormatF(RadToMicro(24 * (PI \div 180)))

\* C10: deltaTime is ((current_tick - last_tick) mod 2^w) / 1000, never
\* negative and equal to the time that passed even across a wrap of the
\* counter; last_tick becomes the current_tick of the tick, so the deltaTimes
\* add up to the time since setup() recorded last_tick.
TickTiming ==
    /\ [](pc \in RunningPcs =>
            /\ deltaTime >= 0
            /\ dtSum = sinceSetup
            /\ (pc # "delta" =>
                  /\ last_tick = current_tick
                  /\ deltaTime = elapsed))
    /\ [][pc = "delta" =>
            /\ deltaTime' = (current_tick' - last_tick) % (2 ^ ClockBits)
            /\ last_tick' = current_tick']_vars

\* a later tick during which the counter wrapped around
TickTimingWitness ==
    /\ pc = "estimate"
    /\ budget < Budget
    /\ elapsed > 0
    /\ current_tick < elapsed
    /\ deltaTime = elapsed

====
